---------------------------- MODULE Spec2Model ----------------------------
(***************************************************************************)
(* Model of pkg/config/virtio.go: the virtio device descriptors, their     *)
(* decoding from a "--device" command-line value (deviceFromCmdLine,       *)
(* FromOptions) and their encoding back to it (ToCmdLine).                 *)
(*                                                                         *)
(* A Go string is a sequence of one-character strings.  Go's int and uint  *)
(* are 64 bits wide on every platform the program builds for; 2^64 does    *)
(* not fit TLC's integers, so an integer is its sign and its magnitude as  *)
(* a sequence of decimal digits 0..9, most significant first, without      *)
(* leading zeros, and the arithmetic the code relies on (range checks,     *)
(* the two's-complement conversion to uint) is done on digits.             *)
(***************************************************************************)
EXTENDS Integers, Sequences, FiniteSets, TLC

VARIABLES
    dev,        \* the device of this behaviour, NoDevice when there is none
    err,        \* the error kind the last operation returned, NoError when nil
    tokens,     \* the []string the last ToCmdLine returned
    op,         \* the last operation
    arg,        \* its argument: a string (deviceFromCmdLine) or []option (FromOptions)
    prev,       \* the device before the last operation
    fromLine,   \* dev is what deviceFromCmdLine returned, unmodified since
    roundTrip   \* the last deviceFromCmdLine re-read the token of such a device

vars == <<dev, err, tokens, op, arg, prev, fromLine, roundTrip>>

----------------------------------------------------------------------------
(* Bounds of the model. *)

\* Most option segments after the device type in a command-line value.
MaxSegs == 3
\* Most options in one direct FromOptions call.
MaxOpts == 2

----------------------------------------------------------------------------
(* Strings. *)

Digits == {"0", "1", "2", "3", "4", "5", "6", "7", "8", "9"}

DigitChars == <<"0", "1", "2", "3", "4", "5", "6", "7", "8", "9">>

DigitVal(c) == CHOOSE v \in 0..9 : DigitChars[v + 1] = c

\* Index of the first occurrence of character c in s, 0 when there is none.
IndexOf(s, c) ==
    IF \E i \in 1..Len(s) : s[i] = c
    THEN CHOOSE i \in 1..Len(s) : s[i] = c /\ \A j \in 1..(i - 1) : s[j] # c
    ELSE 0

\* strings.Split(s, sep) for a one-character sep: never empty, Split("") = [""].
RECURSIVE Split(_, _)
Split(s, sep) ==
    LET i == IndexOf(s, sep)
    IN  IF i = 0 THEN <<s>>
        ELSE <<SubSeq(s, 1, i - 1)>> \o Split(SubSeq(s, i + 1, Len(s)), sep)

\* strings.SplitN(s, sep, 2): cut at the first sep only.
SplitN2(s, sep) ==
    LET i == IndexOf(s, sep)
    IN  IF i = 0 THEN <<s>>
        ELSE <<SubSeq(s, 1, i - 1), SubSeq(s, i + 1, Len(s))>>

\* The segments joined with commas (what a caller writes after --device).
RECURSIVE JoinComma(_)
JoinComma(segs) ==
    IF Len(segs) = 0 THEN <<>>
    ELSE IF Len(segs) = 1 THEN segs[1]
    ELSE segs[1] \o <<",">> \o JoinComma(Tail(segs))

----------------------------------------------------------------------------
(* Integers of 64 bits, as decimal digits. *)

\* 2^63 - 1, 2^63 and 2^64.
MaxInt64 == <<9, 2, 2, 3, 3, 7, 2, 0, 3, 6, 8, 5, 4, 7, 7, 5, 8, 0, 7>>
TwoPow63 == <<9, 2, 2, 3, 3, 7, 2, 0, 3, 6, 8, 5, 4, 7, 7, 5, 8, 0, 8>>
TwoPow64 == <<1, 8, 4, 4, 6, 7, 4, 4, 0, 7, 3, 7, 0, 9, 5, 5, 1, 6, 1, 6>>

Zero == <<0>>

RECURSIVE StripZeros(_)
StripZeros(m) ==
    IF Len(m) > 1 /\ m[1] = 0 THEN StripZeros(Tail(m)) ELSE m

\* a < b for two magnitudes without leading zeros.
RECURSIVE LexLess(_, _)
LexLess(a, b) ==
    IF Len(a) = 0 THEN FALSE
    ELSE IF a[1] # b[1] THEN a[1] < b[1]
    ELSE LexLess(Tail(a), Tail(b))

MagLess(a, b) ==
    IF Len(a) # Len(b) THEN Len(a) < Len(b) ELSE LexLess(a, b)

\* a - b for magnitudes with b <= a: column subtraction from the last digit.
RECURSIVE SubFrom(_, _, _, _, _)
SubFrom(a, b, i, borrow, acc) ==
    IF i = 0 THEN acc
    ELSE LET j == i - (Len(a) - Len(b))
             bd == IF j >= 1 THEN b[j] ELSE 0
             d == a[i] - bd - borrow
         IN  IF d < 0 THEN SubFrom(a, b, i - 1, 1, <<d + 10>> \o acc)
             ELSE SubFrom(a, b, i - 1, 0, <<d>> \o acc)

MagSub(a, b) == StripZeros(SubFrom(a, b, Len(a), 0, <<>>))

\* strconv.Atoi: an optional sign, then one or more decimal digits, the value
\* within [-2^63, 2^63 - 1]; anything else is an error.
Atoi(s) ==
    LET signed == Len(s) > 0 /\ s[1] \in {"-", "+"}
        body == IF signed THEN Tail(s) ELSE s
        mag == StripZeros([i \in 1..Len(body) |-> DigitVal(body[i])])
        neg == signed /\ s[1] = "-"
    IN  IF Len(body) = 0 \/ \E i \in 1..Len(body) : body[i] \notin Digits
        THEN [ok |-> FALSE, neg |-> FALSE, mag |-> Zero]
        ELSE IF (~neg /\ MagLess(MaxInt64, mag)) \/ (neg /\ MagLess(TwoPow63, mag))
        THEN [ok |-> FALSE, neg |-> FALSE, mag |-> Zero]
        ELSE [ok |-> TRUE, neg |-> neg /\ mag # Zero, mag |-> mag]

\* The conversions uint(n) and uintptr(n) of an int: two's complement, so a
\* negative n becomes 2^64 - |n|.
ToUint(n) == IF n.neg THEN MagSub(TwoPow64, n.mag) ELSE n.mag

\* The verb %d of fmt for an unsigned value.
FormatUint(m) == [i \in 1..Len(m) |-> DigitChars[m[i] + 1]]


----------------------------------------------------------------------------
(* net.ParseMAC and net.HardwareAddr.String, os.NewFile. *)

HexLower == <<"0", "1", "2", "3", "4", "5", "6", "7", "8", "9", "a", "b", "c", "d", "e", "f">>
HexUpper == <<"0", "1", "2", "3", "4", "5", "6", "7", "8", "9", "A", "B", "C", "D", "E", "F">>

IsHex(c) == \E v \in 1..16 : HexLower[v] = c \/ HexUpper[v] = c

HexVal(c) == (CHOOSE v \in 1..16 : HexLower[v] = c \/ HexUpper[v] = c) - 1

\* xtoi2 on the two characters of s at x: both hexadecimal, and the character
\* after them, when there is one and checkSep asks for it, is the separator e.
xtoi2ok(s, x, e, checkSep) ==
    /\ x + 1 <= Len(s)
    /\ IsHex(s[x]) /\ IsHex(s[x + 1])
    /\ (checkSep /\ x + 2 <= Len(s)) => s[x + 2] = e

xtoi2val(s, x) == 16 * HexVal(s[x]) + HexVal(s[x + 1])

MacLengths == {6, 8, 20}

\* net.ParseMAC: xx:xx:..., xx-xx-... or xxxx.xxxx...., of 6, 8 or 20 bytes.
ParseMAC(s) ==
    LET bad == [ok |-> FALSE, hw |-> <<>>]
    IN  IF Len(s) < 14 THEN bad
        ELSE IF s[3] \in {":", "-"}
        THEN LET n == (Len(s) + 1) \div 3
             IN  IF (Len(s) + 1) % 3 # 0 \/ n \notin MacLengths THEN bad
                 ELSE IF \E i \in 1..n : ~xtoi2ok(s, 3 * (i - 1) + 1, s[3], TRUE) THEN bad
                 ELSE [ok |-> TRUE, hw |-> [i \in 1..n |-> xtoi2val(s, 3 * (i - 1) + 1)]]
        ELSE IF s[5] = "."
        THEN LET n == (2 * (Len(s) + 1)) \div 5
             IN  IF (Len(s) + 1) % 5 # 0 \/ n \notin MacLengths THEN bad
                 ELSE IF \E g \in 1..(n \div 2) :
                            \/ ~xtoi2ok(s, 5 * (g - 1) + 1, s[5], FALSE)
                            \/ ~xtoi2ok(s, 5 * (g - 1) + 3, s[5], TRUE)
                 THEN bad
                 ELSE [ok |-> TRUE,
                       hw |-> [i \in 1..n |->
                                 xtoi2val(s, 5 * ((i - 1) \div 2) + 1 + 2 * ((i - 1) % 2))]]
        ELSE bad

\* HardwareAddr.String: the bytes in lower-case hexadecimal, colon-separated.
RECURSIVE MacString(_)
MacString(hw) ==
    IF Len(hw) = 0 THEN <<>>
    ELSE LET b == <<HexLower[(hw[1] \div 16) + 1], HexLower[(hw[1] % 16) + 1]>>
         IN  IF Len(hw) = 1 THEN b ELSE b \o <<":">> \o MacString(Tail(hw))

\* A *os.File is nil (NoFile) or holds its descriptor.
NoFile == <<>>

File(fd) == <<fd>>

\* os.NewFile(fd uintptr, name): nil when int(fd) is negative, that is when
\* fd >= 2^63; the descriptor is not otherwise checked.
NewFile(fd) == IF MagLess(fd, TwoPow63) THEN File(fd) ELSE NoFile

\* (*os.File).Fd
Fd(f) == f[1]

----------------------------------------------------------------------------
(* Errors, by the message the code builds. *)

NoError == "nil"
EmptySpec == "empty option list in command line argument"
UnknownDeviceType == "unknown device type"
UnknownOption == "Unknown option"
InvalidValue == "invalid value"
IncompleteDevice == "incomplete device"
ConflictingOption == "'nat' and 'fd' cannot be set at the same time"
UnexpectedCmdLine == "Unexpected storage config commandline"

----------------------------------------------------------------------------
(* The words of the command line. *)

sDevice == <<"-", "-", "d", "e", "v", "i", "c", "e">>
sVirtioBlk == <<"v", "i", "r", "t", "i", "o", "-", "b", "l", "k">>
sVirtioFs == <<"v", "i", "r", "t", "i", "o", "-", "f", "s">>
sVirtioNet == <<"v", "i", "r", "t", "i", "o", "-", "n", "e", "t">>
sVirtioRng == <<"v", "i", "r", "t", "i", "o", "-", "r", "n", "g">>
sVirtioSerial == <<"v", "i", "r", "t", "i", "o", "-", "s", "e", "r", "i", "a", "l">>
sVirtioVsock == <<"v", "i", "r", "t", "i", "o", "-", "v", "s", "o", "c", "k">>
sUsbMassStorage == <<"u", "s", "b", "-", "m", "a", "s", "s", "-", "s", "t", "o", "r", "a", "g", "e">>
sVirtioGpu == <<"v", "i", "r", "t", "i", "o", "-", "g", "p", "u">>

kPath == <<"p", "a", "t", "h">>
kDeviceId == <<"d", "e", "v", "i", "c", "e", "I", "d">>
kSharedDir == <<"s", "h", "a", "r", "e", "d", "D", "i", "r">>
kMountTag == <<"m", "o", "u", "n", "t", "T", "a", "g">>
kLogFilePath == <<"l", "o", "g", "F", "i", "l", "e", "P", "a", "t", "h">>
kNat == <<"n", "a", "t">>
kMac == <<"m", "a", "c">>
kFd == <<"f", "d">>
kPort == <<"p", "o", "r", "t">>
kSocketURL == <<"s", "o", "c", "k", "e", "t", "U", "R", "L">>
kListen == <<"l", "i", "s", "t", "e", "n">>
kConnect == <<"c", "o", "n", "n", "e", "c", "t">>
kBogus == <<"b", "o", "g", "u", "s">>

\* Values used as inputs.
vPathA == <<"/", "a">>
vPathS == <<"/", "t", "m", "p", "/", "s", ".", "s", "o", "c", "k">>
vDisk == <<"d">>
vTag == <<"t">>
vMacDash == <<"A", "A", "-", "B", "B", "-", "C", "C", "-", "D", "D", "-", "E", "E", "-", "F", "F">>
vMacColon == <<"a", "a", ":", "b", "b", ":", "c", "c", ":", "d", "d", ":", "e", "e", ":", "f", "f">>
vMacBad == <<"z", "z">>
vFive == <<"5">>
vMinusOne == <<"-", "1">>
vPort == <<"1", "0", "2", "4">>
vWord == <<"x">>

\* "key=value" and the bare "key".
KV(k, v) == k \o <<"=">> \o v

----------------------------------------------------------------------------
(* Options: strToOption, strvToOptions. *)

strToOption(str) ==
    LET splitStr == SplitN2(str, "=")
    IN  [key |-> splitStr[1],
         value |-> IF Len(splitStr) > 1 THEN splitStr[2] ELSE <<>>]

RECURSIVE strvToOptions(_)
strvToOptions(opts) ==
    IF Len(opts) = 0 THEN <<>>
    ELSE IF Len(opts[1]) = 0 THEN strvToOptions(Tail(opts))
    ELSE <<strToOption(opts[1])>> \o strvToOptions(Tail(opts))

----------------------------------------------------------------------------
(* The devices.  A device is a record of its Go struct's fields and "kind", *)
(* its dynamic type; NoDevice is the nil VirtioDevice.                      *)

NoDevice == [kind |-> "nil"]

StorageConfig(devName, imagePath) ==
    [DevName |-> devName, ImagePath |-> imagePath, ReadOnly |-> FALSE]

VirtioBlk(config, deviceIdentifier) ==
    [kind |-> "VirtioBlk", StorageConfig |-> config, DeviceIdentifier |-> deviceIdentifier]

USBMassStorage(config) == [kind |-> "USBMassStorage", StorageConfig |-> config]

VirtioFs(sharedDir, mountTag) ==
    [kind |-> "VirtioFs", SharedDir |-> sharedDir, MountTag |-> mountTag]

VirtioNet(nat, macAddress, socket) ==
    [kind |-> "VirtioNet", Nat |-> nat, MacAddress |-> macAddress, Socket |-> socket]

VirtioSerial(logFile) == [kind |-> "VirtioSerial", LogFile |-> logFile]

VirtioRng == [kind |-> "VirtioRng"]

VirtioVsock(port, socketURL, listen) ==
    [kind |-> "VirtioVsock", Port |-> port, SocketURL |-> socketURL, Listen |-> listen]

\* What FromOptions and the constructors return: the device as the call left
\* it, and the error.
Ret(d, e) == [dev |-> d, err |-> e]

\* What ToCmdLine returns.
Cmd(t, e) == [tokens |-> t, err |-> e]

----------------------------------------------------------------------------
(* VirtioSerial *)

VirtioSerialNew(logFilePath) == Ret(VirtioSerial(logFilePath), NoError)

VirtioSerialToCmdLine(d) ==
    IF d.LogFile = <<>> THEN Cmd(<<>>, IncompleteDevice)
    ELSE Cmd(<<sDevice, sVirtioSerial \o <<",">> \o KV(kLogFilePath, d.LogFile)>>, NoError)

RECURSIVE VirtioSerialLoop(_, _, _)
VirtioSerialLoop(d, options, i) ==
    IF i > Len(options) THEN Ret(d, NoError)
    ELSE IF options[i].key = kLogFilePath
    THEN VirtioSerialLoop([d EXCEPT !.LogFile = options[i].value], options, i + 1)
    ELSE Ret(d, UnknownOption)

VirtioSerialFromOptions(d, options) == VirtioSerialLoop(d, options, 1)

----------------------------------------------------------------------------
(* VirtioNet *)

VirtioNetNew(macAddress) ==
    IF macAddress # <<>> /\ ~ParseMAC(macAddress).ok THEN Ret(NoDevice, InvalidValue)
    ELSE Ret(VirtioNet(TRUE,
                       IF macAddress # <<>> THEN ParseMAC(macAddress).hw ELSE <<>>,
                       NoFile),
             NoError)

\* Mutation of SetSocket that leaves Nat as it was.
SetSocketKeepsNat(d, file) == [d EXCEPT !.Socket = file]

SetSocket(d, file) == [d EXCEPT !.Socket = file, !.Nat = FALSE]

validate(d) ==
    IF d.Nat /\ d.Socket # NoFile THEN ConflictingOption
    ELSE IF ~d.Nat /\ d.Socket = NoFile THEN IncompleteDevice
    ELSE NoError

VirtioNetToCmdLine(d) ==
    IF validate(d) # NoError THEN Cmd(<<>>, validate(d))
    ELSE LET mode == IF d.Nat THEN <<",">> \o kNat
                     ELSE <<",">> \o KV(kFd, FormatUint(Fd(d.Socket)))
             mac == IF Len(d.MacAddress) # 0
                    THEN <<",">> \o KV(kMac, MacString(d.MacAddress))
                    ELSE <<>>
         IN  Cmd(<<sDevice, sVirtioNet \o mode \o mac>>, NoError)

RECURSIVE VirtioNetLoop(_, _, _)
VirtioNetLoop(d, options, i) ==
    IF i > Len(options) THEN Ret(d, validate(d))
    ELSE LET option == options[i]
         IN  CASE option.key = kNat ->
                    IF option.value # <<>> THEN Ret(d, InvalidValue)
                    ELSE VirtioNetLoop([d EXCEPT !.Nat = TRUE], options, i + 1)
               [] option.key = kMac ->
                    IF ~ParseMAC(option.value).ok THEN Ret(d, InvalidValue)
                    ELSE VirtioNetLoop([d EXCEPT !.MacAddress = ParseMAC(option.value).hw],
                                       options, i + 1)
               [] option.key = kFd ->
                    IF ~Atoi(option.value).ok THEN Ret(d, InvalidValue)
                    ELSE VirtioNetLoop(
                             [d EXCEPT !.Socket = NewFile(ToUint(Atoi(option.value)))],
                             options, i + 1)
               [] OTHER -> Ret(d, UnknownOption)

\* Mutation of VirtioNet.FromOptions that does not validate after the loop.
VirtioNetFromOptionsUnvalidated(d, options) ==
    LET r == VirtioNetLoop(d, options, 1)
    IN  IF r.err \in {IncompleteDevice, ConflictingOption} THEN Ret(r.dev, NoError) ELSE r

VirtioNetFromOptions(d, options) == VirtioNetLoop(d, options, 1)

----------------------------------------------------------------------------
(* VirtioRng *)

VirtioRngNew == Ret(VirtioRng, NoError)

VirtioRngToCmdLine(d) == Cmd(<<sDevice, sVirtioRng>>, NoError)

VirtioRngFromOptions(d, options) ==
    IF Len(options) # 0 THEN Ret(d, UnknownOption) ELSE Ret(d, NoError)

----------------------------------------------------------------------------
(* StorageConfig, VirtioBlk, USBMassStorage *)

StorageConfigToCmdLine(config) ==
    IF config.ImagePath = <<>> THEN Cmd(<<>>, IncompleteDevice)
    ELSE Cmd(<<sDevice, config.DevName \o <<",">> \o KV(kPath, config.ImagePath)>>, NoError)

RECURSIVE StorageConfigLoop(_, _, _)
StorageConfigLoop(config, options, i) ==
    IF i > Len(options) THEN Ret(config, NoError)
    ELSE IF options[i].key = kPath
    THEN StorageConfigLoop([config EXCEPT !.ImagePath = options[i].value], options, i + 1)
    ELSE Ret(config, UnknownOption)

\* Mutation of StorageConfig.FromOptions that skips the keys it does not know.
StorageConfigFromOptionsLenient(config, options) ==
    StorageConfigLoop(config, SelectSeq(options, LAMBDA o : o.key = kPath), 1)

\* Returns the StorageConfig as the call left it, and the error.
StorageConfigFromOptions(config, options) == StorageConfigLoop(config, options, 1)

virtioBlkNewEmpty == VirtioBlk(StorageConfig(sVirtioBlk, <<>>), <<>>)

VirtioBlkNew(imagePath) ==
    Ret([virtioBlkNewEmpty EXCEPT !.StorageConfig.ImagePath = imagePath], NoError)

SetDeviceIdentifier(d, devId) == [d EXCEPT !.DeviceIdentifier = devId]

\* The loop of VirtioBlk.FromOptions: every deviceId option is applied, every
\* other option is kept, in order, for the StorageConfig.
RECURSIVE VirtioBlkLoop(_, _, _, _)
VirtioBlkLoop(d, options, i, unhandledOpts) ==
    IF i > Len(options) THEN [dev |-> d, unhandledOpts |-> unhandledOpts]
    ELSE IF options[i].key = kDeviceId
    THEN VirtioBlkLoop([d EXCEPT !.DeviceIdentifier = options[i].value],
                       options, i + 1, unhandledOpts)
    ELSE VirtioBlkLoop(d, options, i + 1, Append(unhandledOpts, options[i]))

VirtioBlkFromOptions(d, options) ==
    LET looped == VirtioBlkLoop(d, options, 1, <<>>)
        stored == StorageConfigFromOptions(looped.dev.StorageConfig, looped.unhandledOpts)
    IN  Ret([looped.dev EXCEPT !.StorageConfig = stored.dev], stored.err)

VirtioBlkToCmdLine(d) ==
    LET cmdLine == StorageConfigToCmdLine(d.StorageConfig)
    IN  IF cmdLine.err # NoError THEN Cmd(<<>>, cmdLine.err)
        ELSE IF Len(cmdLine.tokens) # 2 THEN Cmd(<<>>, UnexpectedCmdLine)
        ELSE IF d.DeviceIdentifier # <<>>
        THEN Cmd(<<cmdLine.tokens[1],
                   cmdLine.tokens[2] \o <<",">> \o KV(kDeviceId, d.DeviceIdentifier)>>,
                 NoError)
        ELSE cmdLine

usbMassStorageNewEmpty == USBMassStorage(StorageConfig(sUsbMassStorage, <<>>))

USBMassStorageNew(imagePath) ==
    Ret([usbMassStorageNewEmpty EXCEPT !.StorageConfig.ImagePath = imagePath], NoError)

\* USBMassStorage embeds StorageConfig and has no methods of its own: both are
\* the promoted StorageConfig methods.
USBMassStorageToCmdLine(d) == StorageConfigToCmdLine(d.StorageConfig)

USBMassStorageFromOptions(d, options) ==
    LET stored == StorageConfigFromOptions(d.StorageConfig, options)
    IN  Ret([d EXCEPT !.StorageConfig = stored.dev], stored.err)

----------------------------------------------------------------------------
(* VirtioVsock *)

VirtioVsockNew(port, socketURL, listen) ==
    Ret(VirtioVsock(port, socketURL, listen), NoError)

\* Mutation of VirtioVsock.ToCmdLine that refuses only a device with neither
\* a port nor a socket URL.
VirtioVsockToCmdLineLax(d) ==
    IF d.Port = Zero /\ d.SocketURL = <<>> THEN Cmd(<<>>, IncompleteDevice)
    ELSE LET listenStr == IF d.Listen THEN kListen ELSE kConnect
         IN  Cmd(<<sDevice,
                   sVirtioVsock \o <<",">> \o KV(kPort, FormatUint(d.Port))
                     \o <<",">> \o KV(kSocketURL, d.SocketURL)
                     \o <<",">> \o listenStr>>,
                 NoError)

VirtioVsockToCmdLine(d) ==
    IF d.Port = Zero \/ d.SocketURL = <<>> THEN Cmd(<<>>, IncompleteDevice)
    ELSE LET listenStr == IF d.Listen THEN kListen ELSE kConnect
         IN  Cmd(<<sDevice,
                   sVirtioVsock \o <<",">> \o KV(kPort, FormatUint(d.Port))
                     \o <<",">> \o KV(kSocketURL, d.SocketURL)
                     \o <<",">> \o listenStr>>,
                 NoError)

RECURSIVE VirtioVsockLoop(_, _, _)
VirtioVsockLoop(d, options, i) ==
    IF i > Len(options) THEN Ret(d, NoError)
    ELSE LET option == options[i]
         IN  CASE option.key = kSocketURL ->
                    VirtioVsockLoop([d EXCEPT !.SocketURL = option.value], options, i + 1)
               [] option.key = kPort ->
                    IF ~Atoi(option.value).ok THEN Ret(d, InvalidValue)
                    ELSE VirtioVsockLoop([d EXCEPT !.Port = ToUint(Atoi(option.value))],
                                         options, i + 1)
               [] option.key = kListen ->
                    VirtioVsockLoop([d EXCEPT !.Listen = TRUE], options, i + 1)
               [] option.key = kConnect ->
                    VirtioVsockLoop([d EXCEPT !.Listen = FALSE], options, i + 1)
               [] OTHER -> Ret(d, UnknownOption)

\* Mutation of VirtioVsock.FromOptions without the default set before the loop.
VirtioVsockFromOptionsNoDefault(d, options) == VirtioVsockLoop(d, options, 1)

\* Listen is set before the loop: "default to listen".
VirtioVsockFromOptions(d, options) ==
    VirtioVsockLoop([d EXCEPT !.Listen = TRUE], options, 1)

----------------------------------------------------------------------------
(* VirtioFs *)

VirtioFsNew(sharedDir, mountTag) == Ret(VirtioFs(sharedDir, mountTag), NoError)

VirtioFsToCmdLine(d) ==
    IF d.SharedDir = <<>> THEN Cmd(<<>>, IncompleteDevice)
    ELSE IF d.MountTag # <<>>
    THEN Cmd(<<sDevice,
               sVirtioFs \o <<",">> \o KV(kSharedDir, d.SharedDir)
                 \o <<",">> \o KV(kMountTag, d.MountTag)>>,
             NoError)
    ELSE Cmd(<<sDevice, sVirtioFs \o <<",">> \o KV(kSharedDir, d.SharedDir)>>, NoError)

RECURSIVE VirtioFsLoop(_, _, _)
VirtioFsLoop(d, options, i) ==
    IF i > Len(options) THEN Ret(d, NoError)
    ELSE IF options[i].key = kSharedDir
    THEN VirtioFsLoop([d EXCEPT !.SharedDir = options[i].value], options, i + 1)
    ELSE IF options[i].key = kMountTag
    THEN VirtioFsLoop([d EXCEPT !.MountTag = options[i].value], options, i + 1)
    ELSE Ret(d, UnknownOption)

VirtioFsFromOptions(d, options) == VirtioFsLoop(d, options, 1)

----------------------------------------------------------------------------
(* The VirtioDevice interface: the method of the device's dynamic type. *)

FromOptions(d, options) ==
    CASE d.kind = "VirtioBlk" -> VirtioBlkFromOptions(d, options)
      [] d.kind = "USBMassStorage" -> USBMassStorageFromOptions(d, options)
      [] d.kind = "VirtioFs" -> VirtioFsFromOptions(d, options)
      [] d.kind = "VirtioNet" -> VirtioNetFromOptions(d, options)
      [] d.kind = "VirtioRng" -> VirtioRngFromOptions(d, options)
      [] d.kind = "VirtioSerial" -> VirtioSerialFromOptions(d, options)
      [] d.kind = "VirtioVsock" -> VirtioVsockFromOptions(d, options)

ToCmdLine(d) ==
    CASE d.kind = "VirtioBlk" -> VirtioBlkToCmdLine(d)
      [] d.kind = "USBMassStorage" -> USBMassStorageToCmdLine(d)
      [] d.kind = "VirtioFs" -> VirtioFsToCmdLine(d)
      [] d.kind = "VirtioNet" -> VirtioNetToCmdLine(d)
      [] d.kind = "VirtioRng" -> VirtioRngToCmdLine(d)
      [] d.kind = "VirtioSerial" -> VirtioSerialToCmdLine(d)
      [] d.kind = "VirtioVsock" -> VirtioVsockToCmdLine(d)

\* The switch of deviceFromCmdLine: the empty device of a type tag, NoDevice
\* for a tag that is none of the seven.
emptyDevice(tag) ==
    CASE tag = sVirtioBlk -> virtioBlkNewEmpty
      [] tag = sVirtioFs -> VirtioFs(<<>>, <<>>)
      [] tag = sVirtioNet -> VirtioNet(FALSE, <<>>, NoFile)
      [] tag = sVirtioRng -> VirtioRng
      [] tag = sVirtioSerial -> VirtioSerial(<<>>)
      [] tag = sVirtioVsock -> VirtioVsock(Zero, <<>>, FALSE)
      [] tag = sUsbMassStorage -> usbMassStorageNewEmpty
      [] OTHER -> NoDevice

deviceFromCmdLine(deviceOpts) ==
    LET opts == Split(deviceOpts, ",")
    IN  IF Len(opts) = 0 THEN Ret(NoDevice, EmptySpec)
        ELSE IF emptyDevice(opts[1]) = NoDevice THEN Ret(NoDevice, UnknownDeviceType)
        ELSE LET parsedOpts == strvToOptions(Tail(opts))
                 decoded == FromOptions(emptyDevice(opts[1]), parsedOpts)
             IN  IF decoded.err # NoError THEN Ret(NoDevice, decoded.err)
                 ELSE decoded

----------------------------------------------------------------------------
(* The inputs. *)

SeqsUpTo(S, n) == UNION {[1..k -> S] : k \in 0..n}

Tags == {sVirtioBlk, sVirtioFs, sVirtioNet, sVirtioRng, sVirtioSerial, sVirtioVsock,
         sUsbMassStorage}

\* The option segments a command-line value is built from, by device type:
\* the keys the type knows, with values it accepts and values it should not,
\* a key it does not know, and for virtio-rng the empty segment.
Segs(tag) ==
    CASE tag = sVirtioBlk -> {KV(kPath, vPathA), KV(kDeviceId, vDisk), kBogus}
      [] tag = sUsbMassStorage -> {KV(kPath, vPathA), KV(kDeviceId, vDisk)}
      [] tag = sVirtioFs -> {KV(kSharedDir, vPathA), KV(kMountTag, vTag), kBogus}
      [] tag = sVirtioSerial -> {KV(kLogFilePath, vPathA), kBogus}
      [] tag = sVirtioRng -> {<<>>, kBogus}
      [] tag = sVirtioNet -> {kNat, KV(kFd, vFive), KV(kFd, vMinusOne), KV(kFd, vWord),
                              KV(kMac, vMacColon), KV(kMac, vMacDash), KV(kMac, vMacBad),
                              kBogus}
      [] tag = sVirtioVsock -> {KV(kPort, vPort), KV(kPort, vMinusOne), KV(kPort, vWord),
                                KV(kSocketURL, vPathS), kListen, kConnect, kBogus}

\* The command-line values given to deviceFromCmdLine: a type and up to
\* MaxSegs segments, the empty string, and a type that is none of the seven.
CmdLines ==
    UNION {{JoinComma(<<tag>> \o segs) : segs \in SeqsUpTo(Segs(tag), MaxSegs)} : tag \in Tags}
      \cup {<<>>, sVirtioGpu, JoinComma(<<sVirtioGpu, KV(kPath, vPathA)>>)}

\* The options of a direct FromOptions call on a device, by its type.
ApiSegs(kind) ==
    CASE kind = "VirtioBlk" -> {KV(kPath, vPathA), KV(kDeviceId, vDisk), kBogus}
      [] kind = "USBMassStorage" -> {KV(kPath, vPathA), kBogus}
      [] kind = "VirtioFs" -> {KV(kSharedDir, vPathA), KV(kMountTag, vTag), kBogus}
      [] kind = "VirtioSerial" -> {KV(kLogFilePath, vPathA), kBogus}
      [] kind = "VirtioRng" -> {kBogus}
      [] kind = "VirtioNet" -> {kNat, KV(kFd, vFive), KV(kFd, vMinusOne), kBogus}
      [] kind = "VirtioVsock" -> {KV(kPort, vPort), KV(kSocketURL, vPathS), kListen,
                                  kConnect, kBogus}

OptionSeqs(kind) == {strvToOptions(segs) : segs \in SeqsUpTo(ApiSegs(kind), MaxOpts)}

\* The arguments of the constructors and setters.
ImagePaths == {<<>>, vPathA}
SocketURLs == {<<>>, vPathS}
MountTags == {<<>>, vTag}
MacArgs == {<<>>, vMacColon, vMacBad}
Ports == {Zero, <<7>>}
Files == {NoFile, File(<<3>>)}
DeviceIds == {<<>>, vDisk}

----------------------------------------------------------------------------
(* The state machine: one device, constructed or decoded, then modified,   *)
(* encoded, and its encoding decoded again.                                *)

Init ==
    /\ dev = NoDevice
    /\ err = NoError
    /\ tokens = <<>>
    /\ op = "init"
    /\ arg = <<>>
    /\ prev = NoDevice
    /\ fromLine = FALSE
    /\ roundTrip = FALSE

\* A constructor's call, made before there is a device: the device it returns
\* becomes the device.
Construct(name, r) ==
    /\ op' = name
    /\ arg' = <<>>
    /\ prev' = dev
    /\ dev' = r.dev
    /\ err' = r.err
    /\ tokens' = <<>>
    /\ fromLine' = FALSE
    /\ roundTrip' = FALSE

\* A setter's call on the device.
Modify(name, d) ==
    /\ op' = name
    /\ arg' = <<>>
    /\ prev' = dev
    /\ dev' = d
    /\ err' = NoError
    /\ tokens' = <<>>
    /\ fromLine' = FALSE
    /\ roundTrip' = FALSE

NewVirtioSerial ==
    /\ op = "init"
    /\ \E logFilePath \in ImagePaths :
           Construct("VirtioSerialNew", VirtioSerialNew(logFilePath))

NewVirtioNet ==
    /\ op = "init"
    /\ \E macAddress \in MacArgs : Construct("VirtioNetNew", VirtioNetNew(macAddress))

NewVirtioRng ==
    /\ op = "init"
    /\ Construct("VirtioRngNew", VirtioRngNew)

NewVirtioBlk ==
    /\ op = "init"
    /\ \E imagePath \in ImagePaths : Construct("VirtioBlkNew", VirtioBlkNew(imagePath))

NewVirtioVsock ==
    /\ op = "init"
    /\ \E port \in Ports, socketURL \in SocketURLs, listen \in BOOLEAN :
           Construct("VirtioVsockNew", VirtioVsockNew(port, socketURL, listen))

NewVirtioFs ==
    /\ op = "init"
    /\ \E sharedDir \in ImagePaths, mountTag \in MountTags :
           Construct("VirtioFsNew", VirtioFsNew(sharedDir, mountTag))

NewUSBMassStorage ==
    /\ op = "init"
    /\ \E imagePath \in ImagePaths :
           Construct("USBMassStorageNew", USBMassStorageNew(imagePath))

CallSetSocket ==
    /\ dev.kind = "VirtioNet"
    /\ \E file \in Files : Modify("SetSocket", SetSocket(dev, file))

CallSetDeviceIdentifier ==
    /\ dev.kind = "VirtioBlk"
    /\ \E devId \in DeviceIds : Modify("SetDeviceIdentifier", SetDeviceIdentifier(dev, devId))

\* FromOptions called on the device: it works on the device in place, so the
\* device is as the call left it whether or not it returned an error.
CallFromOptions ==
    /\ dev # NoDevice
    /\ \E options \in OptionSeqs(dev.kind) :
           LET r == FromOptions(dev, options)
           IN  /\ op' = "FromOptions"
               /\ arg' = options
               /\ prev' = dev
               /\ dev' = r.dev
               /\ err' = r.err
               /\ tokens' = <<>>
               /\ fromLine' = FALSE
               /\ roundTrip' = FALSE

CallToCmdLine ==
    /\ dev # NoDevice
    /\ LET r == ToCmdLine(dev)
       IN  /\ op' = "ToCmdLine"
           /\ arg' = <<>>
           /\ prev' = dev
           /\ dev' = dev
           /\ err' = r.err
           /\ tokens' = r.tokens
           /\ fromLine' = fromLine
           /\ roundTrip' = FALSE

\* deviceFromCmdLine on a command-line value: one of CmdLines at the start,
\* later the value token the last ToCmdLine returned.
CallDeviceFromCmdLine ==
    \E deviceOpts \in (IF op = "init" THEN CmdLines
                       ELSE IF Len(tokens) = 2 THEN {tokens[2]} ELSE {}) :
        LET r == deviceFromCmdLine(deviceOpts)
        IN  /\ op' = "deviceFromCmdLine"
            /\ arg' = deviceOpts
            /\ prev' = dev
            /\ dev' = r.dev
            /\ err' = r.err
            /\ tokens' = <<>>
            /\ fromLine' = (r.err = NoError)
            /\ roundTrip' = (op = "ToCmdLine" /\ fromLine)

Next ==
    \/ NewVirtioSerial
    \/ NewVirtioNet
    \/ NewVirtioRng
    \/ NewVirtioBlk
    \/ NewVirtioVsock
    \/ NewVirtioFs
    \/ NewUSBMassStorage
    \/ CallSetSocket
    \/ CallSetDeviceIdentifier
    \/ CallFromOptions
    \/ CallToCmdLine
    \/ CallDeviceFromCmdLine

Spec == Init /\ [][Next]_vars

----------------------------------------------------------------------------
(* Vocabulary of the properties. *)

\* The device type and the options a command-line value carries.
LineTag(line) == Split(line, ",")[1]

LineOptions(line) == strvToOptions(Tail(Split(line, ",")))

\* The last operation decoded options into a device of this type, through
\* deviceFromCmdLine or by a direct FromOptions call; and those options.
Decoding(kind) ==
    \/ op = "FromOptions" /\ dev.kind = kind
    \/ op = "deviceFromCmdLine" /\ emptyDevice(LineTag(arg)).kind = kind

DecodedOptions == IF op = "deviceFromCmdLine" THEN LineOptions(arg) ELSE arg

\* The device the options were decoded into, as it was before.
DecodedInto == IF op = "deviceFromCmdLine" THEN emptyDevice(LineTag(arg)) ELSE prev

DeviceKinds == {"VirtioBlk", "USBMassStorage", "VirtioFs", "VirtioNet", "VirtioRng",
                "VirtioSerial", "VirtioVsock"}

\* The keys each device type recognizes.
KnownKeys(kind) ==
    CASE kind = "VirtioBlk" -> {kPath, kDeviceId}
      [] kind = "USBMassStorage" -> {kPath}
      [] kind = "VirtioFs" -> {kSharedDir, kMountTag}
      [] kind = "VirtioNet" -> {kNat, kMac, kFd}
      [] kind = "VirtioRng" -> {}
      [] kind = "VirtioSerial" -> {kLogFilePath}
      [] kind = "VirtioVsock" -> {kSocketURL, kPort, kListen, kConnect}

HasKey(options, k) == \E i \in 1..Len(options) : options[i].key = k

HasUnknownKey(options, kind) ==
    \E i \in 1..Len(options) : options[i].key \notin KnownKeys(kind)

\* The options before the first one whose key the type does not recognize.
BeforeUnknown(options, kind) ==
    LET i == CHOOSE j \in 1..Len(options) :
                 /\ options[j].key \notin KnownKeys(kind)
                 /\ \A h \in 1..(j - 1) : options[h].key \in KnownKeys(kind)
    IN  SubSeq(options, 1, i - 1)

\* A decimal integer: digits, after an optional sign; and one that is not
\* negative.
IsInteger(v) ==
    LET body == IF Len(v) > 0 /\ v[1] \in {"-", "+"} THEN Tail(v) ELSE v
    IN  Len(body) > 0 /\ \A i \in 1..Len(body) : body[i] \in Digits

IsNonNegInteger(v) == IsInteger(v) /\ v[1] # "-"

\* The invariant of a device's type that encoding needs (section 3 of the
\* specification).
Complete(d) ==
    CASE d.kind = "VirtioBlk" -> d.StorageConfig.ImagePath # <<>>
      [] d.kind = "USBMassStorage" -> d.StorageConfig.ImagePath # <<>>
      [] d.kind = "VirtioFs" -> d.SharedDir # <<>>
      [] d.kind = "VirtioNet" -> (d.Nat /\ d.Socket = NoFile) \/ (~d.Nat /\ d.Socket # NoFile)
      [] d.kind = "VirtioRng" -> TRUE
      [] d.kind = "VirtioSerial" -> d.LogFile # <<>>
      [] d.kind = "VirtioVsock" -> d.Port # Zero /\ d.SocketURL # <<>>

\* The type tag and the segments of a device's value token, in the declared
\* order of its type.
TypeTag(d) ==
    CASE d.kind = "VirtioBlk" -> sVirtioBlk
      [] d.kind = "USBMassStorage" -> sUsbMassStorage
      [] d.kind = "VirtioFs" -> sVirtioFs
      [] d.kind = "VirtioNet" -> sVirtioNet
      [] d.kind = "VirtioRng" -> sVirtioRng
      [] d.kind = "VirtioSerial" -> sVirtioSerial
      [] d.kind = "VirtioVsock" -> sVirtioVsock

Opt(present, seg) == IF present THEN <<seg>> ELSE <<>>

DeclaredSegs(d) ==
    CASE d.kind = "VirtioBlk" ->
             <<KV(kPath, d.StorageConfig.ImagePath)>>
               \o Opt(d.DeviceIdentifier # <<>>, KV(kDeviceId, d.DeviceIdentifier))
      [] d.kind = "USBMassStorage" -> <<KV(kPath, d.StorageConfig.ImagePath)>>
      [] d.kind = "VirtioFs" ->
             <<KV(kSharedDir, d.SharedDir)>> \o Opt(d.MountTag # <<>>, KV(kMountTag, d.MountTag))
      [] d.kind = "VirtioNet" ->
             Opt(d.Nat, kNat) \o Opt(~d.Nat, KV(kFd, FormatUint(Fd(d.Socket))))
               \o Opt(Len(d.MacAddress) # 0, KV(kMac, MacString(d.MacAddress)))
      [] d.kind = "VirtioRng" -> <<>>
      [] d.kind = "VirtioSerial" -> <<KV(kLogFilePath, d.LogFile)>>
      [] d.kind = "VirtioVsock" ->
             <<KV(kPort, FormatUint(d.Port)), KV(kSocketURL, d.SocketURL),
               IF d.Listen THEN kListen ELSE kConnect>>

\* The key of the last listen or connect option, <<>> when there is none.
RECURSIVE LastDirection(_)
LastDirection(options) ==
    IF Len(options) = 0 THEN <<>>
    ELSE IF options[Len(options)].key \in {kListen, kConnect} THEN options[Len(options)].key
    ELSE LastDirection(SubSeq(options, 1, Len(options) - 1))

----------------------------------------------------------------------------
(* The properties. *)

\* C1: round trip.  When a command-line value decoded to a device, the
\* device encoded to a value token, and that token is decoded again, the
\* second decoding succeeds and returns a device with the same fields.
C1_RoundTrip == roundTrip => (err = NoError /\ dev = prev)

\* C2: ToCmdLine is all or nothing.  A device that violates its type's
\* invariant gets an error and no token; any other gets exactly two tokens,
\* "--device" and the type followed by its keys in the declared order.
C2_EncodeAllOrNothing ==
    op = "ToCmdLine" =>
        IF Complete(dev)
        THEN /\ err = NoError
             /\ tokens = <<sDevice, JoinComma(<<TypeTag(dev)>> \o DeclaredSegs(dev))>>
        ELSE err # NoError /\ tokens = <<>>

C2_Witness ==
    /\ op = "ToCmdLine"
    /\ fromLine
    /\ dev.kind = "VirtioBlk"
    /\ dev.DeviceIdentifier = vDisk
    /\ tokens =
         <<sDevice, JoinComma(<<sVirtioBlk, KV(kPath, vPathA), KV(kDeviceId, vDisk)>>)>>

\* C3: the two modes of a VirtioNet exclude each other.  ToCmdLine returns
\* tokens exactly when one of Nat and Socket is set and the other is not;
\* the value token then has the segment nat exactly when Nat is true and the
\* segment fd=<descriptor> exactly when the socket is set; and SetSocket
\* leaves Nat false.
C3_NetworkExclusive ==
    /\ (op = "ToCmdLine" /\ dev.kind = "VirtioNet") =>
           /\ (Len(tokens) = 2) <=> (dev.Nat # (dev.Socket # NoFile))
           /\ Len(tokens) = 2 =>
                  LET options == LineOptions(tokens[2])
                  IN  /\ HasKey(options, kNat) <=> dev.Nat
                      /\ HasKey(options, kFd) <=> dev.Socket # NoFile
                      /\ \A i \in 1..Len(options) :
                             options[i].key = kFd =>
                                 options[i].value = FormatUint(Fd(dev.Socket))
    /\ op = "SetSocket" => ~dev.Nat

C3_Witness ==
    /\ op = "ToCmdLine"
    /\ dev.kind = "VirtioNet"
    /\ ~dev.Nat
    /\ dev.Socket = File(<<3>>)
    /\ Len(dev.MacAddress) = 6
    /\ Len(tokens) = 2

\* C4 as claimed: decoding options with a key the type does not recognize
\* fails with UnknownOption and returns no device.
C4_UnknownKeyIsUnknownOption ==
    \A kind \in DeviceKinds :
        (Decoding(kind) /\ HasUnknownKey(DecodedOptions, kind))
            => /\ err = UnknownOption
               /\ op = "deviceFromCmdLine" => dev = NoDevice

\* C4 as amended: decoding options with a key the type does not recognize
\* fails and returns no device; the error is UnknownOption unless an option
\* before the first unrecognized key was rejected for its value, and then it
\* is that InvalidValue.  A virtio-rng value decodes exactly when all its
\* segments are empty.
C4_UnknownKeyFails ==
    \A kind \in DeviceKinds :
        Decoding(kind) =>
            /\ HasUnknownKey(DecodedOptions, kind) =>
                   /\ err \in {UnknownOption, InvalidValue}
                   /\ (err = InvalidValue) <=>
                          (FromOptions(DecodedInto, BeforeUnknown(DecodedOptions, kind)).err
                             = InvalidValue)
                   /\ op = "deviceFromCmdLine" => dev = NoDevice
            /\ (kind = "VirtioRng" /\ op = "deviceFromCmdLine") =>
                   ((err = NoError /\ dev = VirtioRng)
                      <=> \A i \in 2..Len(Split(arg, ",")) : Split(arg, ",")[i] = <<>>)
            /\ kind = "VirtioRng" => (err = NoError <=> Len(DecodedOptions) = 0)

C4_Witness ==
    /\ op = "deviceFromCmdLine"
    /\ arg = JoinComma(<<sVirtioBlk, KV(kDeviceId, vDisk), kBogus, KV(kPath, vPathA)>>)
    /\ err = UnknownOption
    /\ dev = NoDevice

\* An option rejected for its value before the unrecognized key.
C4_InvalidValueFirst ==
    /\ op = "deviceFromCmdLine"
    /\ arg = JoinComma(<<sVirtioVsock, KV(kPort, vWord), kBogus>>)
    /\ err = InvalidValue

\* "virtio-rng,,".
C4_RngEmptySegments ==
    /\ op = "deviceFromCmdLine"
    /\ arg = sVirtioRng \o <<",", ",">>
    /\ err = NoError
    /\ dev = VirtioRng

\* C5: a FromOptions call that returns an error leaves the device's fields
\* as they were before the call.
C5_DecodeAllOrNothing ==
    (op = "FromOptions" /\ err # NoError) => dev = prev

\* C6: a virtio-net value with a nat key and an fd key whose value is an
\* integer does not decode: deviceFromCmdLine returns an error and no
\* device.
C6_NatAndFdConflict ==
    (/\ op = "deviceFromCmdLine"
     /\ Decoding("VirtioNet")
     /\ HasKey(DecodedOptions, kNat)
     /\ \E i \in 1..Len(DecodedOptions) :
            DecodedOptions[i].key = kFd /\ IsInteger(DecodedOptions[i].value))
        => (err # NoError /\ dev = NoDevice)

\* A virtio-net value that carries neither nat nor fd, and whose options are
\* otherwise accepted (a MAC address or nothing).
OnlyMac ==
    /\ op = "deviceFromCmdLine"
    /\ Decoding("VirtioNet")
    /\ \A i \in 1..Len(DecodedOptions) :
           DecodedOptions[i].key = kMac /\ ParseMAC(DecodedOptions[i].value).ok

\* C7 as claimed: a virtio-net value with neither nat nor fd decodes to a
\* device, and it is ToCmdLine on that device that fails, with
\* IncompleteDevice.
C7_MissingModeAtEncode ==
    OnlyMac => (/\ err = NoError
                /\ dev # NoDevice
                /\ ToCmdLine(dev).err = IncompleteDevice)

\* C7 as amended: a virtio-net value with neither nat nor fd fails at decode
\* time: deviceFromCmdLine returns an error, IncompleteDevice when the other
\* options are accepted, and no device.  ToCmdLine on a VirtioNet with
\* neither mode set fails with IncompleteDevice too.
C7_MissingModeAtDecode ==
    /\ (/\ op = "deviceFromCmdLine"
        /\ Decoding("VirtioNet")
        /\ ~HasKey(DecodedOptions, kNat)
        /\ ~HasKey(DecodedOptions, kFd))
           => (err # NoError /\ dev = NoDevice)
    /\ OnlyMac => err = IncompleteDevice
    /\ (op = "ToCmdLine" /\ dev.kind = "VirtioNet" /\ ~dev.Nat /\ dev.Socket = NoFile)
           => (err = IncompleteDevice /\ tokens = <<>>)

C7_Witness ==
    /\ op = "deviceFromCmdLine"
    /\ arg = JoinComma(<<sVirtioNet, KV(kMac, vMacColon)>>)
    /\ err = IncompleteDevice
    /\ dev = NoDevice

\* C8: after a successful decoding of a VirtioVsock, Listen is false exactly
\* when the last listen or connect key of the options is connect; with
\* neither key Listen is true whatever it was before; and a value with a
\* port and a socket URL only encodes with a final listen.
C8_LastDirectionWins ==
    /\ (Decoding("VirtioVsock") /\ err = NoError) =>
           (dev.Listen = FALSE <=> LastDirection(DecodedOptions) = kConnect)
    /\ (/\ op = "deviceFromCmdLine"
        /\ arg = JoinComma(<<sVirtioVsock, KV(kPort, vPort), KV(kSocketURL, vPathS)>>))
           => /\ err = NoError
              /\ dev # NoDevice
              /\ ToCmdLine(dev).tokens = <<sDevice, arg \o <<",">> \o kListen>>

C8_Witness ==
    /\ op = "FromOptions"
    /\ dev.kind = "VirtioVsock"
    /\ err = NoError
    /\ prev.Listen = FALSE
    /\ LastDirection(arg) = <<>>
    /\ dev.Listen = TRUE

\* C9: a port value of a VirtioVsock or an fd value of a VirtioNet that is
\* not a nonnegative decimal integer makes the decoding return an error.
C9_NumericValuesChecked ==
    /\ (/\ Decoding("VirtioVsock")
        /\ \E i \in 1..Len(DecodedOptions) :
               DecodedOptions[i].key = kPort /\ ~IsNonNegInteger(DecodedOptions[i].value))
           => err # NoError
    /\ (/\ Decoding("VirtioNet")
        /\ \E i \in 1..Len(DecodedOptions) :
               DecodedOptions[i].key = kFd /\ ~IsNonNegInteger(DecodedOptions[i].value))
           => err # NoError

\* C10: deviceFromCmdLine on the empty string fails with EmptySpec;
\* UnknownDeviceType is returned only for a first segment that exists and is
\* none of the seven types; neither returns a device.
C10_DispatchErrors ==
    op = "deviceFromCmdLine" =>
        /\ arg = <<>> => err = EmptySpec
        /\ err = UnknownDeviceType => (arg # <<>> /\ LineTag(arg) \notin Tags)
        /\ err \in {EmptySpec, UnknownDeviceType} => dev = NoDevice

============================================================================
